---- MODULE Spec2Model ----
(***************************************************************************)
(* The ReAct executor (agent_loop.py), the tool registry GeneratorAgent    *)
(* installs (agent_tools/) and the agent's configuration, as a state       *)
(* machine.  An oracle reply is a sequence of tokens: the markers          *)
(* "Action:", "Action Input:" and "Final Answer:", words, a JSON payload,  *)
(* free text.  White space between tokens is not kept.                     *)
(***************************************************************************)
EXTENDS Integers, Sequences, FiniteSets, TLC

VARIABLES
    max_steps,      \* self.max_steps
    tools,          \* self.tools: command name -> operation
    history,        \* self.history
    failures,       \* self.failures
    pc,             \* where the process is: "idle", "llm", "tool", "exited", "crashed"
    step_num,       \* run(): step_num of the round in progress (0: no round)
    prompt,         \* run(): the prompt string, as its segments
    response,       \* run(): the reply of this round after truncation
    action,         \* run(): the parsed command name
    action_input,   \* run(): the parsed arguments, content_llm injected
    files,          \* durable storage: the paths that exist
    results,        \* the dict each finished run returned, in order
    runs,           \* how many times run() was called on this executor
    calls,          \* oracle calls made by the run in progress (or the last one)
    invoked,        \* operations invoked by that run: [step, tool, args]
    written         \* the writes to {outdir}/steps, in order: [step, part, content]

vars == <<max_steps, tools, history, failures, pc, step_num, prompt, response,
          action, action_input, files, results, runs, calls, invoked, written>>

(***************************************************************************)
(* Bounds of the model.                                                    *)
(***************************************************************************)
MaxBudget == 3
MaxRuns == 2
RunsBudget == 2

(***************************************************************************)
(* Program constants.                                                      *)
(***************************************************************************)
GeneratorMaxSteps == 4

(***************************************************************************)
(* Tokens of a reply.                                                      *)
(***************************************************************************)
ActionMarker == "Action:"
InputMarker == "Action Input:"
FinalMarker == "Final Answer:"
None == "None"

\* The tool registry of agent_tools/tools.py.
TOOL_REGISTRY ==
    [parse_spec |-> "parse_spec_tool",
     extract_test_requirements |-> "extract_test_requirements_tool",
     generate_test_scenarios |-> "generate_test_scenarios_tool",
     format_and_write |-> "format_and_write_tool"]

\* Words (\w+) an oracle may write.
Words ==
    DOMAIN TOOL_REGISTRY \cup {"nope", "ok", "matrix", "generated"}

\* The paths the pipeline reads and writes.
SpecPy == "examples/example_spec.py"
SpecTxt == "examples/spec.txt"
ParsedSpecFile == "output/parsed_spec.json"
RequirementsFile == "output/test_requirements.json"
ScenariosFile == "output/test_scenarios.json"

\* No arguments: the empty mapping {}.
EmptyArgs == [k \in {} |-> ""]

\* json.loads of a payload token that parses: the mapping it denotes.
JsonLoads(tok) ==
    CASE tok = "{\"spec_path\": \"examples/example_spec.py\"}" -> [spec_path |-> SpecPy]
      [] tok = "{\"spec_path\": \"examples/spec.txt\"}" -> [spec_path |-> SpecTxt]
      [] tok = "{\"input_file\": \"output/parsed_spec.json\"}" -> [input_file |-> ParsedSpecFile]
      [] tok = "{\"input_file\": \"output/test_requirements.json\"}" -> [input_file |-> RequirementsFile]
      [] tok = "{\"input_file\": \"output/test_scenarios.json\"}" -> [input_file |-> ScenariosFile]
      [] tok = "{\"spec_path\": \"examples/example_spec.py\", \"content_llm\": \"mine\"}" ->
             [spec_path |-> SpecPy, content_llm |-> "mine"]
      [] tok = "{\"parsed_spec\": \"<entire JSON from tool 1 as string>\"}" ->
             [parsed_spec |-> "<entire JSON from tool 1 as string>"]
      [] tok = "{\"requirements\": \"<entire JSON from tool 2 as string>\"}" ->
             [requirements |-> "<entire JSON from tool 2 as string>"]
      [] tok = "{\"scenarios\": \"<entire JSON from tool 3 as string>\", \"outdir\": \"output\"}" ->
             [scenarios |-> "<entire JSON from tool 3 as string>", outdir |-> "output"]
      [] tok = "{}" -> EmptyArgs
      [] OTHER -> EmptyArgs

\* Whether json.loads accepts the payload token (as it is, or after the single
\* quotes are replaced).
JsonParses(tok) ==
    tok \in {"{\"spec_path\": \"examples/example_spec.py\"}",
             "{\"spec_path\": \"examples/spec.txt\"}",
             "{\"input_file\": \"output/parsed_spec.json\"}",
             "{\"input_file\": \"output/test_requirements.json\"}",
             "{\"input_file\": \"output/test_scenarios.json\"}",
             "{\"spec_path\": \"examples/example_spec.py\", \"content_llm\": \"mine\"}",
             "{\"parsed_spec\": \"<entire JSON from tool 1 as string>\"}",
             "{\"requirements\": \"<entire JSON from tool 2 as string>\"}",
             "{\"scenarios\": \"<entire JSON from tool 3 as string>\", \"outdir\": \"output\"}",
             "{}"}

PayloadTokens ==
    {"{\"spec_path\": \"examples/example_spec.py\"}",
     "{\"spec_path\": \"examples/spec.txt\"}",
     "{\"input_file\": \"output/parsed_spec.json\"}",
     "{\"input_file\": \"output/test_requirements.json\"}",
     "{\"input_file\": \"output/test_scenarios.json\"}",
     "{\"spec_path\": \"examples/example_spec.py\", \"content_llm\": \"mine\"}",
     "{\"parsed_spec\": \"<entire JSON from tool 1 as string>\"}",
     "{\"requirements\": \"<entire JSON from tool 2 as string>\"}",
     "{\"scenarios\": \"<entire JSON from tool 3 as string>\", \"outdir\": \"output\"}",
     "{}",
     "{oops"}

\* Whether the token's text starts with an opening brace.
StartsWithBrace(tok) == tok \in PayloadTokens

\* The word characters a token's text starts with (the \w+ of the regex),
\* or None when it starts with none.
LeadingWord(tok) ==
    CASE tok \in Words -> tok
      [] tok = ActionMarker -> "Action"
      [] tok = InputMarker -> "Action"
      [] tok = FinalMarker -> "Final"
      [] OTHER -> None

\* The positions of a token in a text, in order.
Positions(text, tok) == {i \in 1..Len(text) : text[i] = tok}

Min(S) == CHOOSE m \in S : \A n \in S : m <= n

\* response.count("Action:")
ActionCount(text) == Cardinality(Positions(text, ActionMarker))

\* Truncate without the cut: a loop that keeps the whole reply.
TruncateNothing(text) == text

\* run(), lines 136-150: a reply with several "Action:" markers is cut before
\* the second one.
Truncate(text) ==
    IF ActionCount(text) > 1
    THEN LET first_action_pos == Min(Positions(text, ActionMarker))
             second_action_pos ==
                 Min({i \in Positions(text, ActionMarker) : i > first_action_pos})
         IN  SubSeq(text, 1, second_action_pos - 1)
    ELSE text

\* HasFinalAnswer looked at only when the reply names no action.
FinalAnswerUnlessAction(text) ==
    Positions(text, FinalMarker) # {} /\ Positions(text, ActionMarker) = {}

\* "Final Answer:" in response
HasFinalAnswer(text) == Positions(text, FinalMarker) # {}

\* FinalText with split(..., 1): everything after the first marker.
FinalTextToEnd(text) ==
    SubSeq(text, Min(Positions(text, FinalMarker)) + 1, Len(text))

\* response.split("Final Answer:")[1].strip(): the text between the first
\* marker and the next one (or the end).
FinalText(text) ==
    LET first == Min(Positions(text, FinalMarker))
        later == {i \in Positions(text, FinalMarker) : i > first}
        stop == IF later = {} THEN Len(text) + 1 ELSE Min(later)
    IN  SubSeq(text, first + 1, stop - 1)

\* _parse_action: re.search(r"Action:\s*(\w+)", text), the leftmost marker
\* that a word follows.
ParseAction(text) ==
    LET hits == {i \in Positions(text, ActionMarker) :
                    i < Len(text) /\ LeadingWord(text[i + 1]) # None}
    IN  IF hits = {} THEN None ELSE LeadingWord(text[Min(hits) + 1])

\* ParseActionInput that keeps the arguments of the round before when the
\* payload does not parse.
ParseActionInputStale(text) ==
    LET hits == {i \in Positions(text, InputMarker) :
                    i < Len(text) /\ StartsWithBrace(text[i + 1])}
    IN  IF hits = {}
        THEN EmptyArgs
        ELSE LET json_str == text[Min(hits) + 1]
             IN  IF JsonParses(json_str) THEN JsonLoads(json_str)
                 ELSE [k \in DOMAIN action_input \ {"content_llm"} |-> action_input[k]]

\* _parse_action_input: the leftmost "Action Input:" that an opening brace
\* follows; the first balanced object after it is parsed, an unbalanced or
\* unparsable one gives {}.
ParseActionInput(text) ==
    LET hits == {i \in Positions(text, InputMarker) :
                    i < Len(text) /\ StartsWithBrace(text[i + 1])}
    IN  IF hits = {}
        THEN EmptyArgs
        ELSE LET json_str == text[Min(hits) + 1]
             IN  IF JsonParses(json_str) THEN JsonLoads(json_str) ELSE EmptyArgs

(***************************************************************************)
(* The operations of the registry (agent_tools/).  A call reads the        *)
(* arguments and durable storage; env is what the call meets there:        *)
(*   "ok"          the file read has the expected shape and the content    *)
(*                 model's reply is the expected JSON;                     *)
(*   "unparsable"  the content model's reply is not the expected JSON;     *)
(*   "badshape"    the file read holds a value of another shape (no `spec` *)
(*                 variable, a JSON array where an object is expected).    *)
(* A call returns a payload, raises, or ends the process.                  *)
(***************************************************************************)
ToolEnvs == {"ok", "unparsable", "badshape"}

\* The model the executor injects into every operation (self.content_llm).
ContentLLM == "content_llm"

\* dict.get(key): the value, or None.
Get(inp, key) == IF key \in DOMAIN inp THEN inp[key] ELSE None

Returns(obs, fs) == [kind |-> "return", obs |-> obs, msg |-> "", files |-> fs]
Raises(msg, fs) == [kind |-> "raise", obs |-> EmptyArgs, msg |-> msg, files |-> fs]
Exits(fs) == [kind |-> "exit", obs |-> EmptyArgs, msg |-> "", files |-> fs]

\* f"{outdir}/TEST_MATRIX.md"
MatrixFile(outdir) ==
    IF outdir = "output" THEN "output/TEST_MATRIX.md" ELSE "elsewhere/TEST_MATRIX.md"

IsJsonFile(path) == path \in {ParsedSpecFile, RequirementsFile, ScenariosFile}

parse_spec_tool(inp, fs, env) ==
    LET spec_path == Get(inp, "spec_path")
        content_llm == Get(inp, "content_llm")
        done == Returns([success |-> "True", output_file |-> ParsedSpecFile],
                        fs \cup {ParsedSpecFile})
    IN  IF spec_path = None THEN Returns([error |-> "spec_path required"], fs)
        ELSE IF content_llm = None THEN Returns([error |-> "content_llm required"], fs)
        ELSE IF spec_path \notin fs THEN Returns([error |-> "Parse failed: No such file"], fs)
        ELSE IF spec_path = SpecPy
             THEN IF env = "badshape"
                  THEN Returns([error |-> "No 'spec' variable found"], fs)
                  ELSE done
             ELSE IF env = "ok"
                  THEN done
                  ELSE Returns([error |-> "Failed to parse content model response"], fs)

extract_test_requirements_tool(inp, fs, env) ==
    LET input_file == Get(inp, "input_file")
        content_llm == Get(inp, "content_llm")
    IN  IF input_file = None
        THEN Returns([error |-> "input_file required (path to parsed_spec.json)"], fs)
        ELSE IF content_llm = None THEN Returns([error |-> "content_llm required"], fs)
        ELSE IF input_file \notin fs THEN Returns([error |-> "File not found"], fs)
        ELSE IF ~IsJsonFile(input_file) THEN Returns([error |-> "Failed to read"], fs)
        ELSE IF env = "badshape" THEN Raises("'list' object has no attribute 'get'", fs)
        ELSE IF input_file # ParsedSpecFile
             THEN Returns([error |-> "No features found in input file"], fs)
        ELSE IF env = "unparsable" THEN Exits(fs)
        ELSE Returns([success |-> "True", output_file |-> RequirementsFile],
                     fs \cup {RequirementsFile})

generate_test_scenarios_tool(inp, fs, env) ==
    LET input_file == Get(inp, "input_file")
        content_llm == Get(inp, "content_llm")
    IN  IF input_file = None
        THEN Returns([error |-> "input_file required (path to test_requirements.json)"], fs)
        ELSE IF content_llm = None THEN Returns([error |-> "content_llm required"], fs)
        ELSE IF input_file \notin fs THEN Returns([error |-> "File not found"], fs)
        ELSE IF ~IsJsonFile(input_file) THEN Returns([error |-> "Failed to read"], fs)
        ELSE IF env = "badshape" THEN Raises("'list' object has no attribute 'get'", fs)
        ELSE IF input_file # RequirementsFile
             THEN Returns([error |-> "No requirements found in input file"], fs)
        ELSE IF env = "unparsable"
             THEN Returns([error |-> "Scenario generation failed: local variable 'e' referenced before assignment"], fs)
        ELSE Returns([success |-> "True", output_file |-> ScenariosFile],
                     fs \cup {ScenariosFile})

\* format_and_write_tool that writes the head of the table before it looks at
\* its arguments.
format_and_write_opens_first(inp, fs, env) ==
    IF "input_file" \notin DOMAIN inp
    THEN [kind |-> "return",
          obs |-> [error |-> "input_file required (path to test_scenarios.json)"],
          msg |-> "", files |-> fs \cup {"output/TEST_MATRIX.md"}]
    ELSE [kind |-> "return", obs |-> [error |-> "File not found"], msg |-> "", files |-> fs]

format_and_write_tool(inp, fs, env) ==
    LET input_file == Get(inp, "input_file")
        outdir == IF "outdir" \in DOMAIN inp THEN inp["outdir"] ELSE "output"
    IN  IF input_file = None
        THEN Returns([error |-> "input_file required (path to test_scenarios.json)"], fs)
        ELSE IF input_file \notin fs THEN Returns([error |-> "File not found"], fs)
        ELSE IF ~IsJsonFile(input_file) THEN Returns([error |-> "Failed to read"], fs)
        ELSE IF env = "badshape" THEN Raises("'list' object has no attribute 'get'", fs)
        ELSE IF input_file # ScenariosFile
             THEN Returns([error |-> "No scenarios found in input file"], fs)
        ELSE Returns([success |-> "True", file_path |-> MatrixFile(outdir)],
                     fs \cup {MatrixFile(outdir)})

\* tool(action_input): the call of an operation of the registry.
Invoke(tool, inp, fs, env) ==
    CASE tool = "parse_spec_tool" -> parse_spec_tool(inp, fs, env)
      [] tool = "extract_test_requirements_tool" -> extract_test_requirements_tool(inp, fs, env)
      [] tool = "generate_test_scenarios_tool" -> generate_test_scenarios_tool(inp, fs, env)
      [] tool = "format_and_write_tool" -> format_and_write_tool(inp, fs, env)

(***************************************************************************)
(* ReActExecutor.                                                          *)
(***************************************************************************)
SystemPrompt == [role |-> "system", text |-> <<"SYSTEM_PROMPT">>]

\* The value of a "failures" entry of a returned dict: the executor's own list
\* (the dict holds a reference to self.failures) or a list built for the dict.
SelfFailures == [ref |-> "self.failures", val |-> <<>>]
NewList(val) == [ref |-> "new", val |-> val]
Deref(f) == IF f.ref = "self.failures" THEN failures ELSE f.val

\* run(), lines 122-125: the routing model raised.
OracleFaultResult(step) ==
    [status |-> "FAILED", error |-> "Routing model error", steps |-> step]

\* run(), lines 159-179: a final answer before any tool ran.
PrematureResult(step, final_text) ==
    [status |-> "FAILED",
     error |-> "Routing model gave Final Answer without executing tools",
     final_answer |-> final_text,
     steps |-> step,
     failures |-> NewList(<<[step |-> step, type |-> "premature_final_answer",
                            error |-> "Routing model did not follow ReAct format"]>>)]

\* SuccessResult that looks at the failures recorded so far.
SuccessOnlyIfClean(step, final_text) ==
    IF failures = <<>>
    THEN [status |-> "SUCCESS", final_answer |-> final_text, steps |-> step,
          failures |-> [ref |-> "self.failures", val |-> <<>>]]
    ELSE [status |-> "FAILED", error |-> "Tools failed", steps |-> step,
          failures |-> [ref |-> "self.failures", val |-> <<>>]]

\* run(), lines 182-187.
SuccessResult(step, final_text) ==
    [status |-> "SUCCESS", final_answer |-> final_text, steps |-> step,
     failures |-> SelfFailures]

\* run(), lines 199-217: no command name in the reply.
NoActionResult(step, text) ==
    [status |-> "FAILED", error |-> "No Action found in routing model response",
     steps |-> step,
     failures |-> NewList(<<[step |-> step, type |-> "no_action_found",
                            error |-> "No Action found in routing model response",
                            response_preview |-> text]>>)]

\* run(), lines 219-223: the name is not in self.tools (the message names it).
UnknownToolResult(step, name) ==
    [status |-> "FAILED", error |-> "Unknown tool", steps |-> step]

\* run(), line 316.
MaxStepsError == "Max steps reached without Final Answer"

\* MaxStepsResult that counts the round after the last.
MaxStepsCountsOneMore ==
    [status |-> "FAILED", error |-> MaxStepsError,
     steps |-> max_steps + 1, failures |-> [ref |-> "self.failures", val |-> <<>>]]

\* MaxStepsResult with a list of its own, as the other FAILED results have.
MaxStepsWithNewList ==
    [status |-> "FAILED", error |-> MaxStepsError,
     steps |-> max_steps, failures |-> NewList(<<>>)]

\* run(), lines 316-325: the loop ran out.
MaxStepsResult ==
    [status |-> "FAILED", error |-> MaxStepsError,
     steps |-> max_steps, failures |-> SelfFailures]

\* InjectContentLLM that keeps a content_llm the arguments already hold.
InjectUnlessSupplied(args) == args @@ ("content_llm" :> ContentLLM)

\* run(), line 240: action_input["content_llm"] = self.content_llm
InjectContentLLM(args) == ("content_llm" :> ContentLLM) @@ args

\* IsPremature with the rounds counted from zero.
PrematureInRoundZero(step) == step = 0

\* IsPremature without the round test: a final answer is never premature.
NeverPremature(step) == FALSE

\* run(), line 159.
IsPremature(step) == step = 1

\* DispatchBoundary without the try/except around the call.
NoDispatchBoundary(outcome) == outcome

\* run(), lines 245-296: what the try/except around tool(action_input) makes
\* of the call's outcome: a raised fault becomes an error observation.
DispatchBoundary(outcome) ==
    IF outcome.kind = "raise"
    THEN [kind |-> "caught", obs |-> [error |-> outcome.msg], msg |-> outcome.msg,
          files |-> outcome.files]
    ELSE outcome

\* FailureFor that records a caught fault under both types.
FailureForBothTypes(step, name, boundary) ==
    IF boundary.kind = "caught"
    THEN <<[step |-> step, action |-> name, error |-> boundary.msg, type |-> "tool_error"],
           [step |-> step, action |-> name, error |-> boundary.msg, type |-> "exception"]>>
    ELSE IF "error" \in DOMAIN boundary.obs
         THEN <<[step |-> step, action |-> name, error |-> boundary.obs.error,
                 type |-> "tool_error"]>>
         ELSE <<>>

\* FailureFor that records the caught faults only.
FailureForFaultsOnly(step, name, boundary) ==
    IF boundary.kind = "caught"
    THEN <<[step |-> step, action |-> name, error |-> boundary.msg, type |-> "exception"]>>
    ELSE <<>>

\* run(), lines 250-261 and 289-296: the failure recorded for an observation,
\* as a list of zero or one records.
FailureFor(step, name, boundary) ==
    IF boundary.kind = "caught"
    THEN <<[step |-> step, action |-> name, error |-> boundary.msg, type |-> "exception"]>>
    ELSE IF "error" \in DOMAIN boundary.obs
         THEN <<[step |-> step, action |-> name, error |-> boundary.obs.error,
                 type |-> "tool_error"]>>
         ELSE <<>>

\* PromptSegments with the observation put before the reply.
PromptSegmentsSwapped(text, obs) ==
    <<[role |-> "observation", obs |-> obs], [role |-> "routing", text |-> text]>>

\* run(), line 314: what a round adds to the prompt.
PromptSegments(text, obs) ==
    <<[role |-> "routing", text |-> text], [role |-> "observation", obs |-> obs]>>

\* The locals of run() are gone when it returns.
Return(result) ==
    /\ results' = Append(results, result)
    /\ pc' = "idle"
    /\ step_num' = 0
    /\ prompt' = <<>>
    /\ response' = <<>>
    /\ action' = None
    /\ action_input' = EmptyArgs

\* StartRun with a loop whose body runs before its bound is tested.
StartRunEntersLoop(limit) ==
    /\ pc = "idle"
    /\ runs < limit
    /\ runs' = runs + 1
    /\ calls' = 0
    /\ invoked' = <<>>
    /\ pc' = "llm"
    /\ step_num' = 1
    /\ prompt' = <<[role |-> "system", text |-> <<"SYSTEM_PROMPT">>]>>
    /\ UNCHANGED <<results, response, action, action_input>>
    /\ UNCHANGED <<max_steps, tools, history, failures, files, written>>

\* run(), lines 101-110: reset_state() does nothing; the prompt starts as the
\* system prompt; the loop is entered unless range(max_steps) is empty.
StartRun(limit) ==
    /\ pc = "idle"
    /\ runs < limit
    /\ runs' = runs + 1
    /\ calls' = 0
    /\ invoked' = <<>>
    /\ IF max_steps >= 1
       THEN /\ pc' = "llm"
            /\ step_num' = 1
            /\ prompt' = <<SystemPrompt>>
            /\ UNCHANGED <<results, response, action, action_input>>
       ELSE Return(MaxStepsResult)
    /\ UNCHANGED <<max_steps, tools, history, failures, files, written>>

\* OracleFaults with the call made again in the same round.
OracleFaultsRetried ==
    /\ pc = "llm"
    /\ calls <= max_steps
    /\ calls' = calls + 1
    /\ UNCHANGED <<max_steps, tools, history, failures, pc, step_num, prompt,
                   response, action, action_input, files, results, runs, invoked,
                   written>>

\* run(), lines 118-125: self.llm(prompt) raises.
OracleFaults ==
    /\ pc = "llm"
    /\ calls' = calls + 1
    /\ Return(OracleFaultResult(step_num))
    /\ UNCHANGED <<max_steps, tools, history, failures, files, runs, invoked, written>>

\* run(), lines 130-133 and 299-302: a write of step_NN_routing.txt or
\* step_NN_tool.json.
StepFile(step, part, content) == [step |-> step, part |-> part, content |-> content]

\* run(), lines 118-240: self.llm(prompt) returns reply; the round up to the
\* call of the tool, or to a return.
OracleReplies(reply) ==
    /\ pc = "llm"
    /\ calls' = calls + 1
    /\ history' = Append(history, [role |-> "routing_llm", text |-> reply])
    /\ written' = Append(written, StepFile(step_num, "routing", reply))
    /\ LET truncated == Truncate(reply)
           name == ParseAction(truncated)
           args == ParseActionInput(truncated)
       IN  IF HasFinalAnswer(truncated)
           THEN IF IsPremature(step_num)
                THEN Return(PrematureResult(step_num, FinalText(truncated)))
                ELSE Return(SuccessResult(step_num, FinalText(truncated)))
           ELSE IF name = None
                THEN Return(NoActionResult(step_num, truncated))
           ELSE IF name \notin DOMAIN tools
                THEN Return(UnknownToolResult(step_num, name))
           ELSE /\ response' = truncated
                /\ action' = name
                /\ action_input' = InjectContentLLM(args)
                /\ pc' = "tool"
                /\ UNCHANGED <<results, step_num, prompt>>
    /\ UNCHANGED <<max_steps, tools, failures, files, runs, invoked>>

\* ToolReturns with an operation that binds its name in the registry anew.
ToolRebindsItsName(env) ==
    /\ pc = "tool"
    /\ step_num < max_steps
    /\ tools' = [tools EXCEPT ![action] = "format_and_write_tool"]
    /\ pc' = "llm"
    /\ step_num' = step_num + 1
    /\ UNCHANGED <<max_steps, history, failures, prompt, response, action,
                   action_input, files, results, runs, calls, invoked, written>>

\* ToolReturns that does not wait for the call: the next round starts while
\* the operation is running.
ToolNotAwaited(env) ==
    /\ pc = "tool"
    /\ step_num < max_steps
    /\ pc' = "llm"
    /\ step_num' = step_num + 1
    /\ UNCHANGED <<max_steps, tools, history, failures, prompt, response, action,
                   action_input, files, results, runs, calls, invoked, written>>

\* run(), lines 245-325: the tool is called and returns, raises or ends the
\* process; the observation is recorded and the loop goes on or runs out.
ToolReturns(env) ==
    /\ pc = "tool"
    /\ LET outcome == Invoke(tools[action], action_input, files, env)
           boundary == DispatchBoundary(outcome)
       IN  /\ invoked' = Append(invoked, [step |-> step_num, tool |-> action,
                                          args |-> action_input, kind |-> outcome.kind,
                                          msg |-> outcome.msg])
           /\ files' = outcome.files
           /\ CASE boundary.kind = "exit" ->
                     /\ pc' = "exited"
                     /\ UNCHANGED <<history, failures, results, step_num, prompt,
                                    response, action, action_input, written>>
                [] boundary.kind = "raise" ->
                     /\ pc' = "crashed"
                     /\ UNCHANGED <<history, failures, results, step_num, prompt,
                                    response, action, action_input, written>>
                [] OTHER ->
                     /\ failures' = failures \o FailureFor(step_num, action, boundary)
                     /\ history' = Append(history, [role |-> "tool", obs |-> boundary.obs])
                     /\ written' = Append(written, StepFile(step_num, "tool", boundary.obs))
                     /\ IF step_num < max_steps
                        THEN /\ prompt' = prompt \o PromptSegments(response, boundary.obs)
                             /\ step_num' = step_num + 1
                             /\ pc' = "llm"
                             /\ UNCHANGED <<results, response, action, action_input>>
                        ELSE Return(MaxStepsResult)
    /\ UNCHANGED <<max_steps, tools, runs, calls>>

(***************************************************************************)
(* The replies the oracle is made to give.                                 *)
(***************************************************************************)
SpecPyPayload == "{\"spec_path\": \"examples/example_spec.py\"}"
SpecTxtPayload == "{\"spec_path\": \"examples/spec.txt\"}"
ParsedPayload == "{\"input_file\": \"output/parsed_spec.json\"}"
RequirementsPayload == "{\"input_file\": \"output/test_requirements.json\"}"
ScenariosPayload == "{\"input_file\": \"output/test_scenarios.json\"}"
OwnModelPayload == "{\"spec_path\": \"examples/example_spec.py\", \"content_llm\": \"mine\"}"
BrokenPayload == "{oops"

\* The arguments as SYSTEM_PROMPT documents them for tools 2, 3 and 4.
DocParsedSpecPayload == "{\"parsed_spec\": \"<entire JSON from tool 1 as string>\"}"
DocRequirementsPayload == "{\"requirements\": \"<entire JSON from tool 2 as string>\"}"
DocScenariosPayload ==
    "{\"scenarios\": \"<entire JSON from tool 3 as string>\", \"outdir\": \"output\"}"

\* How a reply starts ...
Heads ==
    {<<>>,
     <<FinalMarker, "ok">>,
     <<ActionMarker, "...">>,
     <<ActionMarker, "nope">>,
     <<ActionMarker, "parse_spec">>,
     <<ActionMarker, "parse_spec", InputMarker, SpecPyPayload>>,
     <<ActionMarker, "parse_spec", InputMarker, OwnModelPayload>>,
     <<ActionMarker, "parse_spec", InputMarker, BrokenPayload>>,
     <<ActionMarker, "extract_test_requirements", InputMarker, ParsedPayload>>}

\* ... and how it goes on.
Tails ==
    {<<>>,
     <<FinalMarker, "ok">>,
     <<ActionMarker, "format_and_write", InputMarker, SpecPyPayload>>,
     <<ActionMarker, "format_and_write", FinalMarker, "ok">>}

Replies == {h \o t : h \in Heads, t \in Tails}

\* The replies of an oracle called on several runs.
RunsReplies ==
    {<<FinalMarker, "ok">>,
     <<ActionMarker, "nope">>,
     <<ActionMarker, "parse_spec">>,
     <<ActionMarker, "parse_spec", InputMarker, SpecPyPayload>>}

\* What the routing model writes under GeneratorAgent: the steps of the
\* workflow with the arguments the operations read and with the arguments the
\* system prompt documents, and a step whose arguments do not parse.
GenOutputs ==
    {<<ActionMarker, "parse_spec", InputMarker, SpecPyPayload>>,
     <<ActionMarker, "parse_spec", InputMarker, SpecTxtPayload>>,
     <<ActionMarker, "parse_spec", InputMarker, BrokenPayload>>,
     <<ActionMarker, "extract_test_requirements", InputMarker, DocParsedSpecPayload>>,
     <<ActionMarker, "generate_test_scenarios", InputMarker, DocRequirementsPayload>>,
     <<ActionMarker, "format_and_write", InputMarker, DocScenariosPayload>>,
     <<ActionMarker, "extract_test_requirements", InputMarker, ParsedPayload>>,
     <<ActionMarker, "generate_test_scenarios", InputMarker, RequirementsPayload>>,
     <<ActionMarker, "format_and_write", InputMarker, ScenariosPayload>>,
     <<FinalMarker, "matrix", "generated">>}

\* What `ollama run` does with a prompt: it writes output, writes none, is
\* not installed, outlives the timeout of 1000 seconds, or fails otherwise.
Backend ==
    [kind : {"output"}, out : GenOutputs]
        \cup [kind : {"silent", "FileNotFoundError", "TimeoutExpired", "Exception"},
              out : {<<>>}]

\* OllamaLLM.__call__: the output of the backend, or a text that tells of its
\* failure; no exception leaves the call.
OllamaLLM(proc) ==
    CASE proc.kind = "output" -> proc.out
      [] proc.kind = "silent" -> <<"[Error: No output. stderr=]">>
      [] proc.kind = "FileNotFoundError" ->
             <<"[Error: Ollama not installed. Visit https://ollama.com]">>
      [] proc.kind = "TimeoutExpired" ->
             <<"[Error: Timeout after 10 minutes. Model may be stuck or prompt too complex]">>
      [] proc.kind = "Exception" -> <<"[Error: Connection refused]">>

\* The replies the executor of GeneratorAgent gets from its routing model.
GenReplies == {OllamaLLM(proc) : proc \in Backend}

(***************************************************************************)
(* Specifications.                                                         *)
(***************************************************************************)
\* ReActExecutor.__init__, lines 32-37.
InitExecutor(budgets) ==
    /\ max_steps \in budgets
    /\ tools = TOOL_REGISTRY
    /\ history = <<>>
    /\ failures = <<>>
    /\ pc = "idle"
    /\ step_num = 0
    /\ prompt = <<>>
    /\ response = <<>>
    /\ action = None
    /\ action_input = EmptyArgs
    /\ files = {SpecPy, SpecTxt}
    /\ results = <<>>
    /\ runs = 0
    /\ calls = 0
    /\ invoked = <<>>
    /\ written = <<>>

\* One run of an executor with any step budget, any oracle.
Init == InitExecutor(0..MaxBudget)

Next ==
    \/ StartRun(1)
    \/ OracleFaults
    \/ \E reply \in Replies : OracleReplies(reply)
    \/ \E env \in ToolEnvs : ToolReturns(env)

Spec == Init /\ [][Next]_vars

\* One run of an executor whose step budget may also be negative.
InitAnyBudget == InitExecutor((-1)..MaxBudget)

SpecAnyBudget == InitAnyBudget /\ [][Next]_vars

\* Several runs of one executor.
InitRuns == InitExecutor(1..RunsBudget)

NextRuns ==
    \/ StartRun(MaxRuns)
    \/ OracleFaults
    \/ \E reply \in RunsReplies : OracleReplies(reply)
    \/ \E env \in ToolEnvs : ToolReturns(env)

SpecRuns == InitRuns /\ [][NextRuns]_vars

\* The executor as GeneratorAgent.__init__ builds it, run once by
\* GeneratorAgent.run; OllamaLLM catches every fault of the backend.
InitGen == InitExecutor({GeneratorMaxSteps})

NextGen ==
    \/ StartRun(1)
    \/ \E reply \in GenReplies : OracleReplies(reply)
    \/ \E env \in ToolEnvs : ToolReturns(env)

SpecGen == InitGen /\ [][NextGen]_vars

\* run() is one thread that goes on until it returns or the process ends:
\* a step that can be taken is taken.
FairSpecGen == SpecGen /\ WF_vars(NextGen)

(***************************************************************************)
(* The parsers on the text of a reply.  Here a text is the sequence of its *)
(* lexemes: the markers, white space, the punctuation of JSON, a code      *)
(* fence, words.  json.loads is the grammar of objects and strings.        *)
(***************************************************************************)
Space == " "
Newline == "\n"
Quote == "\""
Apostrophe == "'"
\* A code fence: three backticks.
Fence == "<fence>"
Whitespace == {Space, Newline}

\* Markers written in lower case.
LowerActionMarker == "action:"
LowerInputMarker == "action input:"
LowerFinalMarker == "final answer:"

\* The characters \w+ takes at the start of a lexeme (None: none).
WordOf(lex) ==
    CASE lex \in {"parse_spec", "spec_path", "x", "Thought", "json", "a", "b"} -> lex
      [] lex \in {ActionMarker, InputMarker} -> "Action"
      [] lex = FinalMarker -> "Final"
      [] lex \in {LowerActionMarker, LowerInputMarker} -> "action"
      [] lex = LowerFinalMarker -> "final"
      [] OTHER -> None

\* \s*: the first position from i on that holds no white space.
RECURSIVE SkipWs(_, _)
SkipWs(t, i) ==
    IF i <= Len(t) /\ t[i] \in Whitespace THEN SkipWs(t, i + 1) ELSE i

\* JSON values: a string is its text, an object a mapping from key texts.
Str(text) == [t |-> "str", v |-> text]
Obj(map) == [t |-> "obj", v |-> map]
NoMembers == <<>>
Fail == [ok |-> FALSE, val |-> Str(<<>>), pos |-> 0]
Parsed(val, pos) == [ok |-> TRUE, val |-> val, pos |-> pos]

\* json: a string from the quote at i to the next quote; a raw newline in it
\* is an invalid control character.
json_string(t, i) ==
    LET closing == {j \in (i + 1)..Len(t) : t[j] = Quote}
    IN  IF closing = {}
        THEN Fail
        ELSE LET j == Min(closing)
             IN  IF \E k \in (i + 1)..(j - 1) : t[k] = Newline
                 THEN Fail
                 ELSE Parsed(SubSeq(t, i + 1, j - 1), j + 1)

RECURSIVE json_value(_, _), json_members(_, _, _)
\* json: a value from i on (a string or an object).
json_value(t, i) ==
    LET j == SkipWs(t, i)
    IN  IF j > Len(t) THEN Fail
        ELSE IF t[j] = Quote
             THEN LET s == json_string(t, j)
                  IN  IF s.ok THEN Parsed(Str(s.val), s.pos) ELSE Fail
        ELSE IF t[j] = "{"
             THEN LET k == SkipWs(t, j + 1)
                  IN  IF k <= Len(t) /\ t[k] = "}"
                      THEN Parsed(Obj(NoMembers), k + 1)
                      ELSE json_members(t, k, NoMembers)
        ELSE Fail

\* json: the members of an object from i on; a key given twice keeps the
\* later value.
json_members(t, i, acc) ==
    LET j == SkipWs(t, i)
    IN  IF j > Len(t) \/ t[j] # Quote THEN Fail
        ELSE LET key == json_string(t, j)
             IN  IF ~key.ok THEN Fail
                 ELSE LET c == SkipWs(t, key.pos)
                      IN  IF c > Len(t) \/ t[c] # ":" THEN Fail
                          ELSE LET val == json_value(t, c + 1)
                               IN  IF ~val.ok THEN Fail
                                   ELSE LET members == (key.val :> val.val) @@ acc
                                            n == SkipWs(t, val.pos)
                                        IN  IF n > Len(t) THEN Fail
                                            ELSE IF t[n] = "}"
                                                 THEN Parsed(Obj(members), n + 1)
                                            ELSE IF t[n] = ","
                                                 THEN json_members(t, n + 1, members)
                                            ELSE Fail

\* json.loads: one value and nothing but white space after it.
json_loads(t) ==
    LET val == json_value(t, 1)
    IN  IF val.ok /\ SkipWs(t, val.pos) > Len(t) THEN val ELSE Fail

\* json_str.replace: every single quote becomes a double quote.
ReplaceQuotes(t) == [i \in DOMAIN t |-> IF t[i] = Apostrophe THEN Quote ELSE t[i]]

\* _parse_action_input, lines 69-84: the end of the first stretch in which the
\* braces opened are closed again, every brace counted (0: there is none).
RECURSIVE BraceEnd(_, _, _)
BraceEnd(t, i, brace_count) ==
    IF i > Len(t) THEN 0
    ELSE IF t[i] = "{" THEN BraceEnd(t, i + 1, brace_count + 1)
    ELSE IF t[i] = "}"
         THEN IF brace_count - 1 = 0 THEN i ELSE BraceEnd(t, i + 1, brace_count - 1)
    ELSE BraceEnd(t, i + 1, brace_count)

\* _parse_action on a text: re.search(r"Action:\s*(\w+)", text).
ParseActionOfText(text) ==
    LET hits == {i \in DOMAIN text :
                    /\ text[i] = ActionMarker
                    /\ SkipWs(text, i + 1) <= Len(text)
                    /\ WordOf(text[SkipWs(text, i + 1)]) # None}
    IN  IF hits = {} THEN None ELSE WordOf(text[SkipWs(text, Min(hits) + 1)])

\* The text _parse_action_input hands to json.loads: from the brace after the
\* first "Action Input:" that a brace follows, to the end of its braces.
JsonStrOfText(text) ==
    LET hits == {i \in DOMAIN text :
                    /\ text[i] = InputMarker
                    /\ SkipWs(text, i + 1) <= Len(text)
                    /\ text[SkipWs(text, i + 1)] = "{"}
    IN  IF hits = {}
        THEN <<>>
        ELSE LET start == SkipWs(text, Min(hits) + 1)
                 json_text == SubSeq(text, start, Len(text))
                 json_end == BraceEnd(json_text, 1, 0)
             IN  IF json_end > 0 THEN SubSeq(json_text, 1, json_end) ELSE json_text

\* ParseActionInputOfText without the second except.
ParseActionInputRaising(text) ==
    LET json_str == JsonStrOfText(text)
    IN  IF json_str = <<>> THEN [kind |-> "return", val |-> NoMembers]
        ELSE IF json_loads(json_str).ok
             THEN [kind |-> "return", val |-> json_loads(json_str).val.v]
        ELSE IF json_loads(ReplaceQuotes(json_str)).ok
             THEN [kind |-> "return", val |-> json_loads(ReplaceQuotes(json_str)).val.v]
        ELSE [kind |-> "raise", val |-> NoMembers]

\* _parse_action_input on a text: {} without a match; json.loads of the
\* object, then of the object with its single quotes replaced, then {}.
ParseActionInputOfText(text) ==
    LET json_str == JsonStrOfText(text)
    IN  IF json_str = <<>> THEN [kind |-> "return", val |-> NoMembers]
        ELSE IF json_loads(json_str).ok
             THEN [kind |-> "return", val |-> json_loads(json_str).val.v]
        ELSE IF json_loads(ReplaceQuotes(json_str)).ok
             THEN [kind |-> "return", val |-> json_loads(ReplaceQuotes(json_str)).val.v]
        ELSE [kind |-> "return", val |-> NoMembers]

(***************************************************************************)
(* The replies given to the parsers: a thought or nothing, the pair        *)
(* "Action:" / "Action Input:" with an object written in one of several    *)
(* forms, free text or nothing after it, a final answer or none.           *)
(***************************************************************************)
\* json.dumps: the text of a value.
RECURSIVE Dumps(_), DumpsMembers(_, _)
Dumps(val) ==
    IF val.t = "str"
    THEN <<Quote>> \o val.v \o <<Quote>>
    ELSE <<"{">> \o DumpsMembers(val.v, DOMAIN val.v) \o <<"}">>

DumpsMembers(map, keys) ==
    IF keys = {}
    THEN <<>>
    ELSE LET key == CHOOSE k \in keys : TRUE
         IN  <<Quote>> \o key \o <<Quote, ":", Space>> \o Dumps(map[key])
                 \o (IF keys = {key} THEN <<>>
                     ELSE <<",", Space>> \o DumpsMembers(map, keys \ {key}))

\* The objects an oracle means: none, one argument, a nested object, a string
\* that holds braces, two arguments.
Objects ==
    {Obj(NoMembers),
     Obj(<<"spec_path">> :> Str(<<"x">>)),
     Obj(<<"a">> :> Obj(<<"b">> :> Str(<<"x">>))),
     Obj(<<"a">> :> Str(<<"}", "{">>)),
     Obj((<<"a">> :> Str(<<"x">>)) @@ (<<"b">> :> Str(<<"x", Space, "x">>)))}

Forms == {"json", "single_quoted", "newline", "fenced", "fenced_json"}

\* The position of the last quote of a text (0: none).
LastQuote(t) ==
    IF \E i \in DOMAIN t : t[i] = Quote
    THEN CHOOSE i \in DOMAIN t : t[i] = Quote /\ \A j \in DOMAIN t : t[j] = Quote => j <= i
    ELSE 0

\* An object as the oracle writes it in a form: as JSON, with single quotes,
\* with a line break inside its last string, inside a code fence.
Payload(obj, form) ==
    LET json == Dumps(obj)
    IN  CASE form = "json" -> json
          [] form = "single_quoted" ->
                 [i \in DOMAIN json |-> IF json[i] = Quote THEN Apostrophe ELSE json[i]]
          [] form = "newline" ->
                 IF LastQuote(json) = 0 THEN json
                 ELSE SubSeq(json, 1, LastQuote(json) - 1) \o <<Newline>>
                          \o SubSeq(json, LastQuote(json), Len(json))
          [] form = "fenced" -> <<Fence, Newline>> \o json \o <<Newline, Fence>>
          [] form = "fenced_json" -> <<Fence, "json", Newline>> \o json \o <<Newline, Fence>>

Befores == {<<>>, <<"Thought", Space, "x", Newline>>}
Afters == {<<>>, <<Newline, "x">>, <<Space, "}", Space, "x">>}
Spellings == {"canonical", "lower"}

Spelled(marker, spelling) ==
    IF spelling = "canonical" THEN marker
    ELSE CASE marker = ActionMarker -> LowerActionMarker
           [] marker = InputMarker -> LowerInputMarker
           [] marker = FinalMarker -> LowerFinalMarker

ParseCases ==
    [before : Befores, name : {"parse_spec"}, args : Objects, form : Forms,
     spelling : Spellings, after : Afters, final : BOOLEAN]

ReplyText(c) ==
    c.before
        \o <<Spelled(ActionMarker, c.spelling), Space, c.name, Newline,
             Spelled(InputMarker, c.spelling), Space>>
        \o Payload(c.args, c.form)
        \o c.after
        \o (IF c.final THEN <<Newline, Spelled(FinalMarker, c.spelling), Space, "x">>
            ELSE <<>>)

ParseTexts == {ReplyText(c) : c \in ParseCases}

\* A reply has come in the first round of a run.
InitParse ==
    /\ max_steps = 1
    /\ tools = TOOL_REGISTRY
    /\ history = <<>>
    /\ failures = <<>>
    /\ pc = "llm"
    /\ step_num = 1
    /\ prompt = <<SystemPrompt>>
    /\ response \in ParseTexts
    /\ action = None
    /\ action_input = NoMembers
    /\ files = {SpecPy, SpecTxt}
    /\ results = <<>>
    /\ runs = 1
    /\ calls = 1
    /\ invoked = <<>>
    /\ written = <<>>

\* _parse_action and _parse_action_input are applied to the reply.
ParseReply ==
    /\ pc = "llm"
    /\ LET parsed == ParseActionInputOfText(response)
       IN  /\ action' = ParseActionOfText(response)
           /\ action_input' = parsed.val
           /\ pc' = IF parsed.kind = "raise" THEN "crashed" ELSE "parsed"
    /\ UNCHANGED <<max_steps, tools, history, failures, step_num, prompt, response,
                   files, results, runs, calls, invoked, written>>

\* run(), lines 136-194: what the loop makes of the reply: it cuts it, takes
\* it for a final answer or parses the command.
DecideReply ==
    /\ pc = "llm"
    /\ LET truncated == Truncate(response)
           final == HasFinalAnswer(truncated)
       IN  /\ results' = <<[final |-> final]>>
           /\ action' = IF final THEN None ELSE ParseActionOfText(truncated)
           /\ action_input' =
                 IF final THEN NoMembers ELSE ParseActionInputOfText(truncated).val
           /\ pc' = "decided"
    /\ UNCHANGED <<max_steps, tools, history, failures, step_num, prompt, response,
                   files, runs, calls, invoked, written>>

NextParse == ParseReply \/ DecideReply

SpecParse == InitParse /\ [][NextParse]_vars

(***************************************************************************)
(* Reading a run back from the state.                                      *)
(***************************************************************************)
IsRouting(entry) == entry.role = "routing_llm"
IsTool(entry) == entry.role = "tool"

\* The replies the oracle gave, in order (those of the first run when the
\* executor has run once).
RoutingEntries == SelectSeq(history, IsRouting)
ReplyOf(round) == RoutingEntries[round].text

\* The first run has returned.
FirstRunOver == runs = 1 /\ pc = "idle" /\ Len(results) = 1

Last(seq) == seq[Len(seq)]

IsPrefix(s, t) == Len(s) <= Len(t) /\ SubSeq(t, 1, Len(s)) = s

(***************************************************************************)
(* C1.  Round 1 names a command that is not registered and round 2 says    *)
(* "Final Answer: ok": the run does not stop at round 1, it records one    *)
(* unknown_command failure for round 1, feeds the error observation back   *)
(* and returns SUCCESS at round 2 with exactly that failure.               *)
(***************************************************************************)
C1_UnknownCommandRecovers ==
    (FirstRunOver /\ max_steps >= 2 /\ RoutingEntries # <<>>
        /\ ReplyOf(1) = <<ActionMarker, "nope">>)
    => /\ calls >= 2
       /\ Len(history) >= 2 /\ IsTool(history[2]) /\ "error" \in DOMAIN history[2].obs
       /\ (ReplyOf(2) = <<FinalMarker, "ok">>
            => /\ results[1].status = "SUCCESS"
               /\ results[1].steps = 2
               /\ Len(Deref(results[1].failures)) = 1
               /\ Deref(results[1].failures)[1].step = 1
               /\ Deref(results[1].failures)[1].type = "unknown_command")

(***************************************************************************)
(* C2.  Under GeneratorAgent's configuration, the oracle that gives the    *)
(* four actions parse_spec, extract_test_requirements,                     *)
(* generate_test_scenarios, format_and_write, each dispatched with         *)
(* success, and then "Final Answer: matrix generated", gets SUCCESS with   *)
(* 5 rounds taken and no failures.                                         *)
(***************************************************************************)
Scenario ==
    <<<<ActionMarker, "parse_spec", InputMarker, SpecPyPayload>>,
      <<ActionMarker, "extract_test_requirements", InputMarker, ParsedPayload>>,
      <<ActionMarker, "generate_test_scenarios", InputMarker, RequirementsPayload>>,
      <<ActionMarker, "format_and_write", InputMarker, ScenariosPayload>>,
      <<FinalMarker, "matrix", "generated">>>>

AllDispatchesSucceeded ==
    \A i \in DOMAIN history : IsTool(history[i]) => "error" \notin DOMAIN history[i].obs

C2_ScenarioSucceedsInFiveRounds ==
    (FirstRunOver /\ max_steps = GeneratorMaxSteps
        /\ IsPrefix([i \in DOMAIN RoutingEntries |-> ReplyOf(i)], Scenario)
        /\ AllDispatchesSucceeded)
    => /\ results[1].status = "SUCCESS"
       /\ results[1].steps = 5
       /\ Deref(results[1].failures) = <<>>

(***************************************************************************)
(* C3.  With a budget of N >= 1 steps and an oracle whose replies never    *)
(* hold "Final Answer:", the run ends after exactly N rounds (N oracle     *)
(* calls), FAILED with the max-steps error.                                *)
(***************************************************************************)
C3_NoFinalAnswerTakesWholeBudget ==
    (FirstRunOver /\ max_steps >= 1
        /\ calls = Len(RoutingEntries)
        /\ \A i \in DOMAIN RoutingEntries :
              \A k \in DOMAIN ReplyOf(i) : ReplyOf(i)[k] # FinalMarker)
    => /\ results[1].status = "FAILED"
       /\ results[1].error = MaxStepsError
       /\ results[1].steps = max_steps
       /\ calls = max_steps

(***************************************************************************)
(* C4.  The first reply of a run holds "Final Answer:": the run ends at    *)
(* round 1, FAILED with a premature_final_answer failure, and no operation *)
(* is invoked.                                                             *)
(***************************************************************************)
EndedPrematureAtRoundOne ==
    /\ pc = "idle"
    /\ Len(results) = 1
    /\ results[1].status = "FAILED"
    /\ results[1].steps = 1
    /\ "failures" \in DOMAIN results[1]
    /\ Len(Deref(results[1].failures)) = 1
    /\ Deref(results[1].failures)[1].type = "premature_final_answer"
    /\ Deref(results[1].failures)[1].step = 1
    /\ invoked = <<>>
    /\ calls = 1

\* As claimed: the marker anywhere in the first reply.
C4_FinalAnswerFirstIsPremature ==
    (runs = 1 /\ RoutingEntries # <<>>
        /\ \E k \in DOMAIN ReplyOf(1) : ReplyOf(1)[k] = FinalMarker)
    => EndedPrematureAtRoundOne

\* The marker is in the part of the reply the loop keeps: at most one
\* "Action:" marker comes before it.
FinalMarkerKept(text) ==
    \E k \in DOMAIN text :
        /\ text[k] = FinalMarker
        /\ Cardinality({j \in 1..(k - 1) : text[j] = ActionMarker}) <= 1

\* C4 as amended: the first reply holds "Final Answer:" in the text the loop
\* keeps (before a second "Action:" marker): the run ends at round 1, FAILED
\* with a premature_final_answer failure, and no operation is invoked.
C4_KeptFinalAnswerFirstIsPremature ==
    (runs = 1 /\ RoutingEntries # <<>> /\ FinalMarkerKept(ReplyOf(1)))
    => EndedPrematureAtRoundOne

C4_Witness ==
    /\ runs = 1 /\ RoutingEntries # <<>>
    /\ FinalMarkerKept(ReplyOf(1))
    /\ ActionCount(ReplyOf(1)) = 1
    /\ EndedPrematureAtRoundOne

(***************************************************************************)
(* C5.  An operation that raises a runtime fault: the fault is caught at   *)
(* the dispatch boundary, becomes an error observation, is recorded as a   *)
(* failure of that round and appended to the next prompt, and the loop     *)
(* goes to its next round (or, the budget spent, to the max-steps result)  *)
(* instead of ending on the fault.                                         *)
(***************************************************************************)
C5_FaultIsCaughtAndFedBack ==
    [][(pc = "tool" /\ Len(invoked') = Len(invoked) + 1 /\ Last(invoked').kind = "raise")
        => LET msg == Last(invoked').msg
               obs == [error |-> msg]
           IN  /\ failures' = Append(failures,
                      [step |-> step_num, action |-> action, error |-> msg,
                       type |-> "exception"])
               /\ history' = Append(history, [role |-> "tool", obs |-> obs])
               /\ IF step_num < max_steps
                  THEN /\ pc' = "llm"
                       /\ step_num' = step_num + 1
                       /\ results' = results
                       /\ Len(prompt') = Len(prompt) + 2
                       /\ prompt'[Len(prompt) + 1] = [role |-> "routing", text |-> response]
                       /\ Last(prompt') = [role |-> "observation", obs |-> obs]
                  ELSE /\ pc' = "idle"
                       /\ Len(results') = Len(results) + 1
                       /\ Last(results').error = MaxStepsError]_vars

C5_Witness ==
    /\ pc = "llm"
    /\ step_num >= 2
    /\ invoked # <<>>
    /\ Last(invoked).kind = "raise"
    /\ Last(invoked).step = step_num - 1
    /\ failures # <<>>
    /\ Last(failures).type = "exception"
    /\ Last(prompt).role = "observation"
    /\ "error" \in DOMAIN Last(prompt).obs

(***************************************************************************)
(* C6.  For every operation of the registry GeneratorAgent uses, a reply   *)
(* of the content model that is not the expected JSON is not fatal: the    *)
(* operation yields an error observation that is recorded and fed back,    *)
(* and no operation ends the process.                                      *)
(***************************************************************************)
C6_NoOperationEndsTheProcess ==
    /\ pc # "exited"
    /\ \A i \in DOMAIN invoked : invoked[i].kind # "exit"

(***************************************************************************)
(* C7.  At most one operation is invoked in a round, and when the reply    *)
(* holds two or more "Action:" markers the operation invoked is the one    *)
(* the first marker names, its arguments parsed from the text before the   *)
(* second marker; later commands are never executed.                       *)
(***************************************************************************)
MarkerPositions(text) == {k \in DOMAIN text : text[k] = ActionMarker}

SecondMarker(text) ==
    Min({k \in MarkerPositions(text) : k > Min(MarkerPositions(text))})

\* The arguments the oracle gave: those of the call without the injected model.
OracleArgs(args) == [k \in DOMAIN args \ {"content_llm"} |-> args[k]]

C7_OnlyFirstActionIsInvoked ==
    runs = 1 =>
        /\ Len(invoked) <= Len(RoutingEntries)
        /\ \A i, j \in DOMAIN invoked : i # j => invoked[i].step # invoked[j].step
        /\ \A i \in DOMAIN invoked :
              LET text == ReplyOf(invoked[i].step)
              IN  Cardinality(MarkerPositions(text)) >= 2
                  => /\ invoked[i].tool = text[Min(MarkerPositions(text)) + 1]
                     /\ \/ OracleArgs(invoked[i].args) = EmptyArgs
                        \/ \E k \in 1..(SecondMarker(text) - 1) :
                              /\ JsonParses(text[k])
                              /\ OracleArgs(invoked[i].args) = OracleArgs(JsonLoads(text[k]))

C7_Witness ==
    /\ runs = 1
    /\ invoked # <<>>
    /\ Cardinality(MarkerPositions(ReplyOf(Last(invoked).step))) >= 2
    /\ Last(invoked).tool = "parse_spec"
    /\ OracleArgs(Last(invoked).args) = [spec_path |-> SpecPy]

(***************************************************************************)
(* C8.  For a reply with two or more "Action:" markers, neither the        *)
(* transcript (the executor's history, the prompt of later rounds) nor the *)
(* failure records hold text of the second or a later action block.        *)
(***************************************************************************)
C8_NoTraceOfSecondAction ==
    /\ \A i \in DOMAIN history :
          IsRouting(history[i]) => ActionCount(history[i].text) <= 1
    /\ \A i \in DOMAIN prompt :
          prompt[i].role = "routing" => ActionCount(prompt[i].text) <= 1
    /\ \A i \in DOMAIN results :
          "failures" \in DOMAIN results[i]
          => \A k \in DOMAIN Deref(results[i].failures) :
                "response_preview" \in DOMAIN Deref(results[i].failures)[k]
                => ActionCount(Deref(results[i].failures)[k].response_preview) <= 1

(***************************************************************************)
(* C9.  Every result run returns, on every exit path, carries the status,  *)
(* the round count and the complete list of the recoverable failures of    *)
(* the run so far.                                                         *)
(***************************************************************************)
C9_EveryResultCarriesTheFailures ==
    runs = 1 =>
        \A i \in DOMAIN results :
            /\ {"status", "steps", "failures"} \subseteq DOMAIN results[i]
            /\ \A k \in DOMAIN failures :
                  \E m \in DOMAIN Deref(results[i].failures) :
                      Deref(results[i].failures)[m] = failures[k]

(***************************************************************************)
(* C10.  The state of a run is set anew when a run starts: at the start of *)
(* every run, also a second one on the same executor, the history and the  *)
(* failure list are empty, and a result already returned does not change.  *)
(***************************************************************************)
C10_RunStartsFromEmptyState ==
    (pc = "llm" /\ calls = 0) => (history = <<>> /\ failures = <<>>)

(***************************************************************************)
(* C11.  The oracle call of a round faults: the run is FAILED at once with *)
(* the routing-model error; the call is not made again, no operation is    *)
(* invoked in that round and no further round starts.                      *)
(***************************************************************************)
\* An oracle call of the run got no reply.
OracleFaulted == runs = 1 /\ calls > Len(RoutingEntries)

C11_OracleFaultEndsTheRun ==
    OracleFaulted
    => /\ pc = "idle"
       /\ Len(results) = 1
       /\ results[1].status = "FAILED"
       /\ results[1].error = "Routing model error"
       /\ results[1].steps = calls
       /\ calls = Len(RoutingEntries) + 1
       /\ \A i \in DOMAIN invoked : invoked[i].step < calls

C11_Witness ==
    /\ OracleFaulted
    /\ calls = 2
    /\ Len(invoked) = 1
    /\ pc = "idle"
    /\ results[1].error = "Routing model error"
    /\ results[1].steps = 2

(***************************************************************************)
(* C12.  The Ollama backend is unreachable, fails or outlives its timeout  *)
(* during a routing call of a run driven through OllamaLLM: the run ends   *)
(* FAILED as an oracle fault (the routing-model error), the call is not    *)
(* made again and no operation is invoked on the text of the failure.      *)
(***************************************************************************)
OllamaFailureTexts ==
    {OllamaLLM(proc) : proc \in {b \in Backend : b.kind # "output"}}

C12_BackendFailureIsAnOracleFault ==
    \A r \in DOMAIN RoutingEntries :
        ReplyOf(r) \in OllamaFailureTexts
        => /\ pc = "idle"
           /\ Len(results) = 1
           /\ results[1].status = "FAILED"
           /\ results[1].error = "Routing model error"
           /\ "failures" \notin DOMAIN results[1]
           /\ results[1].steps = r
           /\ calls = r
           /\ \A i \in DOMAIN invoked : invoked[i].step # r

(***************************************************************************)
(* C13.  A reply with neither an "Action:" command nor "Final Answer:" is  *)
(* recoverable: the round gives an error observation that is recorded as a *)
(* failure and fed back, and the run goes on to its next round.            *)
(***************************************************************************)
NoMarker(text) ==
    \A k \in DOMAIN text : text[k] \notin {ActionMarker, FinalMarker}

C13_ReplyWithoutActionIsFedBack ==
    runs = 1 =>
        \A r \in DOMAIN RoutingEntries :
            (r < max_steps /\ NoMarker(ReplyOf(r)))
            => /\ Len(history) >= 2 * r
               /\ IsTool(history[2 * r])
               /\ "error" \in DOMAIN history[2 * r].obs
               /\ \E k \in DOMAIN failures : failures[k].step = r
               /\ (pc = "idle" => results[1].steps > r)

(***************************************************************************)
(* C14.  A reply holds both an action block and "Final Answer:": the       *)
(* action is dispatched before the final answer takes effect; the run does *)
(* not end on that reply without dispatching its action.                   *)
(***************************************************************************)
HasActionBlock(text) ==
    \E k \in DOMAIN text :
        /\ text[k] = ActionMarker
        /\ k < Len(text)
        /\ text[k + 1] \in DOMAIN TOOL_REGISTRY

HoldsFinalMarker(text) == \E k \in DOMAIN text : text[k] = FinalMarker

\* The reply up to its second "Action:" marker.
KeptText(text) ==
    IF Cardinality(MarkerPositions(text)) >= 2
    THEN SubSeq(text, 1, SecondMarker(text) - 1)
    ELSE text

\* As claimed.
C14_EmbeddedActionIsDispatchedFirst ==
    runs = 1 =>
        \A r \in DOMAIN RoutingEntries :
            (HasActionBlock(ReplyOf(r)) /\ HoldsFinalMarker(ReplyOf(r)))
            => \/ pc = "tool" /\ step_num = r
               \/ \E i \in DOMAIN invoked : invoked[i].step = r

\* C14 as amended: the text the loop keeps of a reply (the reply up to its
\* second "Action:" marker) holds both an action block and "Final Answer:":
\* the final answer takes effect first; the run ends on that reply (FAILED as
\* premature in round 1, SUCCESS later) and its action is not dispatched.
C14_FinalAnswerComesBeforeTheAction ==
    runs = 1 =>
        \A r \in DOMAIN RoutingEntries :
            (HasActionBlock(KeptText(ReplyOf(r))) /\ HoldsFinalMarker(KeptText(ReplyOf(r))))
            => /\ pc = "idle"
               /\ Len(results) = 1
               /\ results[1].steps = r
               /\ results[1].status = (IF r = 1 THEN "FAILED" ELSE "SUCCESS")
               /\ "final_answer" \in DOMAIN results[1]
               /\ \A i \in DOMAIN invoked : invoked[i].step # r

C14_Witness ==
    /\ runs = 1
    /\ Len(RoutingEntries) = 2
    /\ ReplyOf(2) = <<ActionMarker, "parse_spec", InputMarker, SpecPyPayload, FinalMarker, "ok">>
    /\ pc = "idle"
    /\ results[1].status = "SUCCESS"
    /\ Len(invoked) = 1

(***************************************************************************)
(* C15.  A reply of round r >= 2 holds "Final Answer:": the run is SUCCESS *)
(* and the final text returned is all the text after the marker.           *)
(***************************************************************************)
AllAfterMarker(text) ==
    SubSeq(text, Min({k \in DOMAIN text : text[k] = FinalMarker}) + 1, Len(text))

\* As claimed.
C15_FinalTextIsAllAfterTheMarker ==
    runs = 1 =>
        \A r \in DOMAIN RoutingEntries :
            (r >= 2 /\ HoldsFinalMarker(ReplyOf(r)))
            => /\ pc = "idle"
               /\ Len(results) = 1
               /\ results[1].status = "SUCCESS"
               /\ results[1].steps = r
               /\ results[1].final_answer = AllAfterMarker(ReplyOf(r))

\* final is the part of text between its first "Final Answer:" marker and the
\* next one, or the end of the text.
IsFinalPayload(final, text) ==
    \E k \in DOMAIN text :
        /\ text[k] = FinalMarker
        /\ \A j \in 1..(k - 1) : text[j] # FinalMarker
        /\ k + Len(final) <= Len(text)
        /\ \A j \in DOMAIN final : final[j] = text[k + j] /\ final[j] # FinalMarker
        /\ k + Len(final) < Len(text) => text[k + Len(final) + 1] = FinalMarker

\* C15 as amended: the text the loop keeps of a reply of round r >= 2 (the
\* reply up to its second "Action:" marker) holds "Final Answer:": the run is
\* SUCCESS and the final text returned is the kept text between the first
\* "Final Answer:" marker and the next one (or the end of the kept text).
C15_FinalTextIsUpToTheNextMarker ==
    runs = 1 =>
        \A r \in DOMAIN RoutingEntries :
            (r >= 2 /\ HoldsFinalMarker(KeptText(ReplyOf(r))))
            => /\ pc = "idle"
               /\ Len(results) = 1
               /\ results[1].status = "SUCCESS"
               /\ results[1].steps = r
               /\ IsFinalPayload(results[1].final_answer, KeptText(ReplyOf(r)))

C15_Witness ==
    /\ runs = 1
    /\ Len(RoutingEntries) = 2
    /\ ReplyOf(2) = <<FinalMarker, "ok", FinalMarker, "ok">>
    /\ pc = "idle"
    /\ results[1].status = "SUCCESS"
    /\ results[1].final_answer = <<"ok">>

ErrorRounds == {r \in 1..max_steps : "error" \in DOMAIN history[2 * r].obs}

C17_MaxStepsResultListsEveryFailure ==
    (FirstRunOver /\ results[1].status = "FAILED" /\ results[1].error = MaxStepsError)
    => /\ "failures" \in DOMAIN results[1]
       /\ Len(history) = 2 * max_steps
       /\ LET listed == Deref(results[1].failures)
          IN  /\ Len(listed) = Cardinality(ErrorRounds)
              /\ \A k \in DOMAIN listed :
                    /\ listed[k].step \in ErrorRounds
                    /\ listed[k].error = history[2 * listed[k].step].obs.error
              /\ \A j, k \in DOMAIN listed : j < k => listed[j].step < listed[k].step

C17_Witness ==
    /\ FirstRunOver
    /\ results[1].status = "FAILED"
    /\ results[1].error = MaxStepsError
    /\ max_steps = 3
    /\ Len(Deref(results[1].failures)) = 2
    /\ Deref(results[1].failures)[1].step = 1
    /\ Deref(results[1].failures)[2].step = 3

(***************************************************************************)
(* C18.  Every run comes to one terminal state, SUCCESS or FAILED, within  *)
(* max_steps rounds and gives a result; once it has, the run makes no      *)
(* further oracle call and dispatches no further operation.                *)
(***************************************************************************)
C18_EveryRunEndsWithAResult ==
    /\ (runs = 1) ~> (/\ pc = "idle"
                      /\ Len(results) = 1
                      /\ results[1].status \in {"SUCCESS", "FAILED"}
                      /\ calls <= max_steps)
    /\ [][(runs = 1 /\ pc = "idle") => (calls' = calls /\ invoked' = invoked)]_vars

(***************************************************************************)
(* C19.  Whatever arguments are parsed from the oracle's reply, also ones  *)
(* with a `content_llm` key of their own, the content_llm the operation    *)
(* gets is the content model the executor was configured with; the other   *)
(* arguments are the oracle's.                                             *)
(***************************************************************************)
\* The payload of the kept text of a reply that is parsed as its arguments.
PayloadOf(text) ==
    LET at == {k \in DOMAIN text :
                  text[k] = InputMarker /\ k < Len(text) /\ text[k + 1] \in PayloadTokens}
    IN  IF at = {} THEN "{}" ELSE text[Min(at) + 1]

C19_InjectedModelIsTheExecutors ==
    runs = 1 =>
        /\ pc = "tool" => action_input["content_llm"] = ContentLLM
        /\ \A i \in DOMAIN invoked :
              /\ "content_llm" \in DOMAIN invoked[i].args
              /\ invoked[i].args["content_llm"] = ContentLLM
              /\ OracleArgs(invoked[i].args)
                    = OracleArgs(JsonLoads(PayloadOf(KeptText(ReplyOf(invoked[i].step)))))

C19_Witness ==
    /\ runs = 1
    /\ invoked # <<>>
    /\ PayloadOf(KeptText(ReplyOf(Last(invoked).step))) = OwnModelPayload
    /\ JsonLoads(OwnModelPayload)["content_llm"] # ContentLLM
    /\ Last(invoked).args = [spec_path |-> SpecPy, content_llm |-> ContentLLM]
    /\ Last(invoked).kind = "return"

(***************************************************************************)
(* C20.  The "Action Input:" payload of a reply cannot be parsed: the      *)
(* round is not failed for it; the operation named is dispatched with      *)
(* empty arguments, and when it rejects them the outcome is an error       *)
(* observation, one failure record, and the run goes on.                   *)
(***************************************************************************)
NamesAnOperationWithBrokenPayload(text) ==
    /\ Len(text) = 4
    /\ text[1] = ActionMarker
    /\ text[2] \in DOMAIN TOOL_REGISTRY
    /\ text[3] = InputMarker
    /\ text[4] = BrokenPayload

C20_BrokenPayloadIsEmptyArguments ==
    runs = 1 =>
        \A r \in DOMAIN RoutingEntries :
            NamesAnOperationWithBrokenPayload(KeptText(ReplyOf(r)))
            => \/ /\ pc = "tool"
                  /\ step_num = r
                  /\ action = ReplyOf(r)[2]
                  /\ OracleArgs(action_input) = EmptyArgs
               \/ /\ \E i \in DOMAIN invoked :
                        /\ invoked[i].step = r
                        /\ invoked[i].tool = ReplyOf(r)[2]
                        /\ OracleArgs(invoked[i].args) = EmptyArgs
                        /\ invoked[i].kind = "return"
                  /\ Len(history) >= 2 * r
                  /\ IsTool(history[2 * r])
                  /\ "error" \in DOMAIN history[2 * r].obs
                  /\ Cardinality({k \in DOMAIN failures : failures[k].step = r}) = 1
                  /\ \A k \in DOMAIN failures :
                        failures[k].step = r => failures[k].type = "tool_error"
                  /\ pc = "idle"
                        => \/ results[1].steps > r
                           \/ /\ r = max_steps
                              /\ results[1].status = "FAILED"
                              /\ results[1].error = MaxStepsError

C20_Witness ==
    /\ runs = 1
    /\ pc = "llm"
    /\ step_num = 3
    /\ ReplyOf(2) = <<ActionMarker, "parse_spec", InputMarker, BrokenPayload>>
    /\ Len(invoked) = 2
    /\ invoked[1].args = [spec_path |-> SpecPy, content_llm |-> ContentLLM]
    /\ invoked[2].args = [content_llm |-> ContentLLM]
    /\ history[4].obs = [error |-> "spec_path required"]
    /\ Len(failures) = 1
    /\ failures[1].step = 2

(***************************************************************************)
(* C21.  A reply holds a well-formed pair "Action:" / "Action Input:"      *)
(* whose payload is a JSON object with balanced braces, nested objects     *)
(* too: the parsers give the command name and a mapping equal to the       *)
(* object meant, whatever free text comes before or after the pair.        *)
(***************************************************************************)
C21_ParseRecoversNameAndObject ==
    pc = "parsed" =>
        \A c \in ParseCases :
            (response = ReplyText(c) /\ c.form = "json" /\ c.spelling = "canonical")
            => /\ action = c.name
               /\ action_input = c.args.v

(***************************************************************************)
(* C22.  Parsing the arguments never raises: for every reply text          *)
(* _parse_action_input returns a mapping, and the empty mapping when the   *)
(* marker is missing or every attempt to parse fails.                      *)
(***************************************************************************)
IsMapping(val) == \A k \in DOMAIN val : val[k].t \in {"str", "obj"}

C22_ArgumentParsingNeverRaises ==
    /\ pc # "crashed"
    /\ pc = "parsed" =>
          /\ IsMapping(action_input)
          /\ \A c \in ParseCases :
                response = ReplyText(c)
                => /\ c.spelling = "lower" => action_input = NoMembers
                   /\ c.form \in {"fenced", "fenced_json"} => action_input = NoMembers
                   /\ (c.form = "newline" /\ c.args # Obj(NoMembers))
                         => action_input = NoMembers

C22_Witness ==
    /\ pc = "parsed"
    /\ \E c \in ParseCases :
          /\ response = ReplyText(c)
          /\ c.spelling = "canonical"
          /\ c.form = "newline"
          /\ c.args = Obj(<<"spec_path">> :> Str(<<"x">>))
    /\ action = "parse_spec"
    /\ action_input = NoMembers

(***************************************************************************)
(* C23.  The "Action Input:" payload is pseudo-JSON with single quotes, or *)
(* JSON broken by a line break inside it: the repair pass (single quotes   *)
(* replaced, line breaks collapsed, a second attempt) gives the mapping    *)
(* that was meant.                                                         *)
(***************************************************************************)
BracesInStrings == Obj(<<"a">> :> Str(<<"}", "{">>))

C23_RepairPassRecoversTheObject ==
    pc = "parsed" =>
        \A c \in ParseCases :
            (response = ReplyText(c) /\ c.spelling = "canonical"
                /\ c.form \in {"single_quoted", "newline"} /\ c.args # BracesInStrings)
            => action_input = c.args.v

(***************************************************************************)
(* C24.  The object after "Action Input:" is inside a code fence (with or  *)
(* without the tag json): the fence is taken off and the object becomes    *)
(* the arguments; the arguments are not empty for it.                      *)
(***************************************************************************)
C24_CodeFenceIsStripped ==
    pc = "parsed" =>
        \A c \in ParseCases :
            (response = ReplyText(c) /\ c.spelling = "canonical"
                /\ c.form \in {"fenced", "fenced_json"} /\ c.args # BracesInStrings)
            => action_input = c.args.v

(***************************************************************************)
(* C25.  The markers are recognised in any letter case: the loop treats a  *)
(* reply whose markers are written in another case as it treats the same   *)
(* reply with the markers as documented (same final-answer decision, same  *)
(* command name, same arguments).                                          *)
(***************************************************************************)
Canonical(text) ==
    [i \in DOMAIN text |->
        CASE text[i] = LowerActionMarker -> ActionMarker
          [] text[i] = LowerInputMarker -> InputMarker
          [] text[i] = LowerFinalMarker -> FinalMarker
          [] OTHER -> text[i]]

C25_MarkersInAnyLetterCase ==
    pc = "decided" =>
        LET canon == Truncate(Canonical(response))
            final == HasFinalAnswer(canon)
        IN  /\ results[1].final = final
            /\ action = (IF final THEN None ELSE ParseActionOfText(canon))
            /\ action_input
                  = (IF final THEN NoMembers ELSE ParseActionInputOfText(canon).val)

(***************************************************************************)
(* C26.  The prompt of a round is the transcript rendered: the initial     *)
(* instructions and then, in the order of the rounds, the raw text of      *)
(* every earlier oracle turn and every earlier tool turn as an             *)
(* "Observation:" line with the payload.                                   *)
(***************************************************************************)
\* The prompt holds the instructions and, for each earlier round, the text
\* Text(round) and the round's observation.
PromptIsRendering(Text(_)) ==
    /\ Len(prompt) = 1 + 2 * (step_num - 1)
    /\ prompt[1] = SystemPrompt
    /\ \A r \in 1..(step_num - 1) :
          /\ prompt[2 * r].role = "routing"
          /\ prompt[2 * r].text = Text(r)
          /\ prompt[2 * r + 1].role = "observation"
          /\ prompt[2 * r + 1].obs = history[2 * r].obs

KeptReplyOf(round) == KeptText(ReplyOf(round))

\* As claimed.
C26_PromptHoldsTheRawReplies ==
    (runs = 1 /\ pc \in {"llm", "tool"}) => PromptIsRendering(ReplyOf)

\* C26 as amended: the prompt of a round is the initial instructions and
\* then, in the order of the rounds, for every earlier round the text the loop
\* kept of the oracle's reply (the reply up to its second "Action:" marker)
\* and the round's observation as an "Observation:" line with the payload.
C26_PromptHoldsTheKeptReplies ==
    (runs = 1 /\ pc \in {"llm", "tool"}) => PromptIsRendering(KeptReplyOf)

C26_Witness ==
    /\ runs = 1
    /\ pc = "llm"
    /\ step_num = 3
    /\ Len(prompt) = 5
    /\ ActionCount(ReplyOf(1)) = 2
    /\ prompt[2].text = KeptText(ReplyOf(1))
    /\ prompt[2].text # ReplyOf(1)
    /\ prompt[5].obs = history[4].obs

(***************************************************************************)
(* C27.  When the transcript rendered is longer than the character budget  *)
(* at the end of a round, the prompt of the next round is the original     *)
(* instructions, one line that stands for the rounds left out, and the     *)
(* turns of the latest window only.  Here: a budget that two rounds        *)
(* exceed, a window of one round.                                          *)
(***************************************************************************)
C27_LongTranscriptIsCutToAWindow ==
    (runs = 1 /\ pc = "llm" /\ step_num >= 3)
    => /\ prompt[1] = SystemPrompt
       /\ prompt[2].role = "placeholder"
       /\ Len(prompt) = 4
       /\ prompt[3].role = "routing"
       /\ prompt[4].role = "observation"
       /\ prompt[4].obs = Last(history).obs

(***************************************************************************)
(* C28.  For every round of a run the raw prompt, the raw reply and the    *)
(* observation are each written as an artifact named by the round, and an  *)
(* artifact written for a round is not written again later in the run.     *)
(***************************************************************************)
WrittenFor(round, part) ==
    {w \in DOMAIN written : written[w].step = round /\ written[w].part = part}

C28_EveryRoundIsPersisted ==
    runs = 1 =>
        /\ \A r \in DOMAIN RoutingEntries :
              /\ \E w \in WrittenFor(r, "routing") : written[w].content = ReplyOf(r)
              /\ WrittenFor(r, "prompt") # {}
              /\ (Len(history) >= 2 * r /\ IsTool(history[2 * r]))
                    => \E w \in WrittenFor(r, "tool") :
                          written[w].content = history[2 * r].obs
        /\ \A r \in 1..max_steps :
              \A part \in {"prompt", "routing", "tool"} :
                  Cardinality(WrittenFor(r, part)) <= 1

(***************************************************************************)
(* C29.  The round counter starts at the first round, goes up by exactly   *)
(* one per round, never goes down and never exceeds max_steps; the count   *)
(* of rounds in a result is between 1 and max_steps when max_steps >= 1.   *)
(***************************************************************************)
C29_RoundCounterIsMonotonicAndBounded ==
    /\ [](/\ step_num <= max_steps
          /\ pc \in {"llm", "tool"} => step_num >= 1
          /\ \A i \in DOMAIN results :
                max_steps >= 1 => results[i].steps \in 1..max_steps)
    /\ [][/\ (pc = "idle" /\ pc' # "idle") => step_num' = 1
          /\ (pc # "idle" /\ pc' # "idle") => step_num' \in {step_num, step_num + 1}
          /\ (pc # "idle" /\ step_num' = step_num + 1) => (pc = "tool" /\ pc' = "llm")
          /\ (pc = "tool" /\ pc' = "llm") => step_num' = step_num + 1]_vars

C29_Witness ==
    /\ max_steps = 3
    /\ Len(results) = 1
    /\ results[1].steps = 3
    /\ results[1].status = "FAILED"
    /\ results[1].error = MaxStepsError
    /\ calls = 3

(***************************************************************************)
(* C30.  In a run there are never two oracle calls or two dispatches in    *)
(* flight: the oracle call of a round has returned before the dispatch of  *)
(* the round starts, and the dispatch has returned before the oracle call  *)
(* of the next round starts.                                               *)
(***************************************************************************)
C30_OneCallOrDispatchAtATime ==
    runs = 1 =>
        /\ pc = "llm" => /\ calls = step_num - 1
                         /\ Len(invoked) = step_num - 1
                         /\ Len(history) = 2 * (step_num - 1)
        /\ pc = "tool" => /\ calls = step_num
                          /\ Len(invoked) = step_num - 1
                          /\ Len(history) = 2 * step_num - 1
        /\ \A i \in DOMAIN history : IsRouting(history[i]) <=> i % 2 = 1
        /\ \A i \in DOMAIN invoked : invoked[i].step = i

C30_Witness ==
    /\ runs = 1
    /\ pc = "tool"
    /\ step_num = 2
    /\ calls = 2
    /\ Len(invoked) = 1
    /\ invoked[1].step = 1
    /\ IsRouting(Last(history))

(***************************************************************************)
(* C31.  The registry of operations is read-only during a run: no round    *)
(* adds, removes or rebinds an entry of the tools mapping, whatever the    *)
(* oracle replies.                                                         *)
(***************************************************************************)
C31_RegistryIsReadOnly ==
    /\ [](tools = TOOL_REGISTRY)
    /\ [][/\ DOMAIN tools' = DOMAIN tools
          /\ \A name \in DOMAIN tools : tools'[name] = tools[name]]_vars

C31_Witness ==
    /\ FirstRunOver
    /\ Len(invoked) = 2
    /\ results[1].status = "FAILED"
    /\ results[1].error = "Unknown tool"
    /\ tools = TOOL_REGISTRY

(***************************************************************************)
(* C32.  A run returns SUCCESS only after at least one operation has been  *)
(* dispatched: in round k >= 2 exactly k-1 operations have been invoked in *)
(* the run, one in each earlier round, so a SUCCESS result with steps = k  *)
(* follows exactly k-1 dispatches and k oracle calls.                      *)
(***************************************************************************)
C32_SuccessFollowsTheDispatches ==
    /\ (pc \in {"llm", "tool"} /\ step_num >= 2)
           => /\ Len(invoked) = step_num - 1
              /\ \A r \in 1..(step_num - 1) : invoked[r].step = r
    /\ (pc = "idle" /\ results # <<>> /\ Last(results).status = "SUCCESS")
           => /\ Last(results).steps >= 2
              /\ Len(invoked) = Last(results).steps - 1
              /\ Len(invoked) >= 1
              /\ calls = Last(results).steps

C32_Witness ==
    /\ runs = 2
    /\ pc = "idle"
    /\ Len(results) = 2
    /\ results[2].status = "SUCCESS"
    /\ results[2].steps = 2
    /\ Len(invoked) = 1
    /\ calls = 2

(***************************************************************************)
(* C33.  Whether a run returns SUCCESS depends only on the "Final Answer:" *)
(* marker in the reply of a round >= 2, not on which operations were       *)
(* dispatched before nor on whether any of them succeeded: a SUCCESS       *)
(* result may carry failures and the run need not have called              *)
(* format_and_write.                                                       *)
(***************************************************************************)
C33_SuccessDependsOnTheMarkerOnly ==
    FirstRunOver =>
        (results[1].status = "SUCCESS"
            <=> /\ Len(RoutingEntries) >= 2
                /\ calls = Len(RoutingEntries)
                /\ HoldsFinalMarker(KeptText(Last(RoutingEntries).text)))

C33_Witness ==
    /\ FirstRunOver
    /\ results[1].status = "SUCCESS"
    /\ Deref(results[1].failures) # <<>>
    /\ Len(failures) = Len(invoked)
    /\ \A i \in DOMAIN invoked : invoked[i].tool # "format_and_write"
    /\ MatrixFile("output") \notin files

(***************************************************************************)
(* C34.  For each of the four operations of the registry, arguments shaped *)
(* as the system prompt documents them for that tool hold the argument     *)
(* keys the operation requires, so an oracle that follows the documented   *)
(* protocol is not answered with a missing-argument error.                 *)
(***************************************************************************)
\* SYSTEM_PROMPT, the "Input:" line of each tool.
DocumentedKeys(name) ==
    CASE name = "parse_spec" -> {"spec_path"}
      [] name = "extract_test_requirements" -> {"parsed_spec"}
      [] name = "generate_test_scenarios" -> {"requirements"}
      [] name = "format_and_write" -> {"scenarios", "outdir"}

\* The argument each operation gives up without (besides content_llm, which
\* the executor supplies).
RequiredKey(name) == IF name = "parse_spec" THEN "spec_path" ELSE "input_file"

\* The error observations of an operation that misses its argument.
MissingArgumentErrors ==
    {"spec_path required",
     "input_file required (path to parsed_spec.json)",
     "input_file required (path to test_requirements.json)",
     "input_file required (path to test_scenarios.json)"}

IsMissingArgument(entry) ==
    /\ IsTool(entry)
    /\ "error" \in DOMAIN entry.obs
    /\ entry.obs.error \in MissingArgumentErrors

C34_DocumentedArgumentsAreAccepted ==
    runs = 1 =>
        \A i \in DOMAIN invoked :
            DOMAIN OracleArgs(invoked[i].args) = DocumentedKeys(invoked[i].tool)
                => /\ RequiredKey(invoked[i].tool) \in DOMAIN invoked[i].args
                   /\ Len(history) >= 2 * i => ~IsMissingArgument(history[2 * i])

(***************************************************************************)
(* C35.  With a step budget of zero or less, run makes no oracle call and  *)
(* no dispatch and returns FAILED with the max-steps error, the configured *)
(* budget as its count of steps, and the executor's own failures list.     *)
(***************************************************************************)
C35_NoBudgetNoRound ==
    max_steps <= 0 =>
        /\ pc = "idle"
        /\ calls = 0
        /\ invoked = <<>>
        /\ history = <<>>
        /\ written = <<>>
        /\ files = {SpecPy, SpecTxt}
        /\ runs = 1 => /\ Len(results) = 1
                       /\ results[1].status = "FAILED"
                       /\ results[1].error = MaxStepsError
                       /\ results[1].steps = max_steps
                       /\ results[1].failures.ref = "self.failures"
                       /\ Deref(results[1].failures) = failures

C35_Witness ==
    /\ FirstRunOver
    /\ max_steps = -1
    /\ results[1].steps = -1
    /\ results[1].error = MaxStepsError
    /\ calls = 0

(***************************************************************************)
(* C36.  An operation invoked without its required argument, as after a    *)
(* failed parse of the arguments, returns an error observation and leaves  *)
(* the stored files as they are: none of the four operations writes an     *)
(* output file on that path.                                               *)
(***************************************************************************)
C36_MissingArgumentWritesNothing ==
    [][(pc = "tool" /\ RequiredKey(action) \notin DOMAIN action_input)
          => /\ files' = files
             /\ Len(history') = Len(history) + 1
             /\ IsMissingArgument(Last(history'))
             /\ Last(invoked').kind = "return"]_vars

C36_Witness ==
    /\ Len(invoked) = 4
    /\ \A i \in DOMAIN invoked : RequiredKey(invoked[i].tool) \notin DOMAIN invoked[i].args
    /\ {invoked[i].tool : i \in DOMAIN invoked} = DOMAIN TOOL_REGISTRY
    /\ \A i \in DOMAIN invoked : IsMissingArgument(history[2 * i])
    /\ files = {SpecPy, SpecTxt}

(***************************************************************************)
(* C37.  In a single run of a fresh executor at most one failure is        *)
(* recorded per round, the step indices of the records go strictly up, and *)
(* each is between 1 and the current round; the list only grows at its     *)
(* end: no record is removed or altered.                                   *)
(***************************************************************************)
C37_FailuresGrowByOnePerRound ==
    /\ [](runs = 1 =>
            /\ \A k \in DOMAIN failures : failures[k].step \in 1..calls
            /\ \A j, k \in DOMAIN failures : j < k => failures[j].step < failures[k].step)
    /\ [][/\ IsPrefix(failures, failures')
          /\ Len(failures') <= Len(failures) + 1
          /\ Len(failures') = Len(failures) + 1 => (pc = "tool" /\ Last(failures').step = step_num)]_vars

C37_Witness ==
    /\ runs = 1
    /\ Len(failures) = 2
    /\ failures[1].step = 1
    /\ failures[2].step = 3
    /\ failures[1].type = "tool_error"
    /\ failures[2].type = "exception"

====
